---- MODULE Spec2Model ----
(***************************************************************************)
(* Model of the xray exporter (main.go): the background scrape loop that   *)
(* maintains the xray_user_ip_online gauge vector and the xray_up gauge,    *)
(* the pull collector that serves xray_traffic_bytes_total at scrape time,  *)
(* and the scrape of the gauges by the metrics endpoint.                    *)
(*                                                                         *)
(* A stat name is a sequence of characters.  The character ">" is kept as   *)
(* a character; a run of other characters that the code never looks into   *)
(* (user, traffic, uplink, a user name) is one atom of the sequence.        *)
(***************************************************************************)
EXTENDS Integers, Sequences, FiniteSets, TLC

VARIABLES
    pc,          \* position of scrapeLoop
    cancelled,   \* ctx.Done() is closed
    failCount,   \* scrapeLoop's failCount
    sleep,       \* the delay scrapeLoop last computed (seconds)
    xrayUp,      \* value of the xray_up gauge
    xrayUserIPOnline,  \* the gauge vector: label pair <<name, ip>> -> value
    resp,        \* rows of the list query of the cycle in progress
    users,       \* the users map of the cycle in progress
    pending,     \* users the range loop has not visited yet
    curUser,     \* user of the lookup whose ips are being set
    ipsLeft,     \* ips of that lookup not set yet
    committed,   \* history: online as the last cycle left it
    results,     \* history: user -> outcome of this cycle's lookup
    listOK,      \* history: this cycle's list query succeeded
    cleared,     \* history: Reset ran in this cycle
    upWrites,    \* history: writes to xray_up in this cycle
    hist,        \* history: outcomes of the last three cycles
    seen,        \* history: what the last scrape of this cycle saw of the gauge vector
    cpc,         \* position of the pull collector's Collect
    cresp,       \* rows Collect's QueryStats returned
    emitted,     \* metrics the last Collect sent on the channel
    emittedFrom, \* history: index of the row each emitted metric came from
    fetched,     \* history: outcome of the last Collect's QueryStats
    prevEmitted, \* history: metrics of the Collect before the last one
    everOK,      \* history: some list query has succeeded since the start
    issued,      \* history: lookup key -> number of lookups issued in this cycle
    upstream,    \* what the upstream answers (used where the data is held fixed)
    curData,     \* history: upstream when this cycle began
    prevData,    \* history: upstream when the previous cycle began
    upBefore     \* history: xray_up when this cycle began

vars == <<pc, cancelled, failCount, sleep, xrayUp, xrayUserIPOnline, resp, users, pending,
          curUser, ipsLeft, committed, results, listOK, cleared, upWrites, hist,
          seen, cpc, cresp, emitted, emittedFrom, fetched, prevEmitted,
          everOK, issued, upstream, curData, prevData, upBefore>>

schedVars == <<pc, cancelled, failCount, sleep, xrayUp, xrayUserIPOnline, resp, users,
               pending, curUser, ipsLeft, committed, results, listOK, cleared,
               upWrites, hist>>

collVars == <<cpc, cresp, emitted, emittedFrom, fetched, prevEmitted>>

auxVars == <<everOK, issued, upstream, curData, prevData, upBefore>>

(***************************************************************************)
(* Program constants                                                       *)
(***************************************************************************)
scrapeInterval == 5
failInterval == 15
FailThreshold == 3

(***************************************************************************)
(* Bounds                                                                  *)
(***************************************************************************)
MaxFail == 4        \* consecutive failed cycles explored
MaxSegs == 5        \* segments of the generated stat names

(***************************************************************************)
(* Stat names                                                              *)
(***************************************************************************)
Sep == <<">", ">", ">">>

RECURSIVE Join(_)
Join(segs) ==
    IF Len(segs) = 0 THEN <<>>
    ELSE IF Len(segs) = 1 THEN segs[1]
    ELSE segs[1] \o Sep \o Join(Tail(segs))

\* strings.Index(s, ">>>") + 1, 0 when absent
IndexSep(s) ==
    LET hits == {i \in 1..(Len(s) - 2) : SubSeq(s, i, i + 2) = Sep}
    IN IF hits = {} THEN 0 ELSE CHOOSE i \in hits : \A j \in hits : i <= j

RECURSIVE Split(_)
Split(s) ==
    LET i == IndexSep(s)
    IN IF i = 0 THEN <<s>>
       ELSE <<SubSeq(s, 1, i - 1)>> \o Split(SubSeq(s, i + 3, Len(s)))

Contains(s, sub) ==
    \E i \in 1..(Len(s) - Len(sub) + 1) : SubSeq(s, i, i + Len(sub) - 1) = sub

\* variant: the user is taken from segment 0
parseUser_Seg0(statName) ==
    LET parts == Split(statName)
    IN IF Len(parts) < 2 THEN [user |-> <<>>, ok |-> FALSE]
       ELSE [user |-> parts[1], ok |-> TRUE]

parseUser(statName) ==
    LET parts == Split(statName)
    IN IF Len(parts) < 2 THEN [user |-> <<>>, ok |-> FALSE]
       ELSE [user |-> parts[2], ok |-> TRUE]

LookupKey(user) == <<"user">> \o Sep \o user \o Sep \o <<"online">>

(***************************************************************************)
(* Inputs of the scrape loop                                               *)
(***************************************************************************)
Alice == <<"a">>
Bob == <<"b">>
IPs == {"ip1", "ip2"}
Err == "err"
None == "none"

SchedNames ==
    { Join(<<(<<"user">>), Alice, (<<"traffic">>), (<<"uplink">>)>>),
      Join(<<(<<"user">>), Alice, (<<"traffic">>), (<<"downlink">>)>>),
      Join(<<(<<"user">>), Bob, (<<"traffic">>), (<<"uplink">>)>>),
      <<"user">> }

\* resp.Stat of the list query: up to two rows
SchedTables ==
    {<<>>} \cup {<<n>> : n \in SchedNames}
           \cup {<<n, m>> : n \in SchedNames, m \in SchedNames}

EmptyVec == [p \in {} |-> 1]

(***************************************************************************)
(* Upstream data held fixed over several cycles: the outcome of the list    *)
(* query, its rows, and the outcome of the lookup of each user             *)
(***************************************************************************)
IdemUsers == {Alice, Bob}

LookupOutcomes ==
    {[ok |-> FALSE, ips |-> {}], [ok |-> TRUE, ips |-> {"ip1"}],
     [ok |-> TRUE, ips |-> {"ip1", "ip2"}]}

IdemTables ==
    { <<Join(<<(<<"user">>), Alice, (<<"traffic">>), (<<"uplink">>)>>)>>,
      <<Join(<<(<<"user">>), Alice, (<<"traffic">>), (<<"uplink">>)>>),
        Join(<<(<<"user">>), Bob, (<<"traffic">>), (<<"uplink">>)>>)>>,
      <<(<<"user">>), Join(<<(<<"user">>), Bob, (<<"traffic">>), (<<"uplink">>)>>)>> }

UpstreamDown ==
    [ok |-> FALSE, rows |-> <<>>,
     lookup |-> [u \in IdemUsers |-> [ok |-> FALSE, ips |-> {}]]]

Upstreams ==
    {UpstreamDown} \cup
    [ok : {TRUE}, rows : IdemTables, lookup : [IdemUsers -> LookupOutcomes]]

Put(f, k, v) == [x \in (DOMAIN f) \cup {k} |-> IF x = k THEN v ELSE f[x]]

\* GaugeVec.WithLabelValues(user, ip).Set(v)
SetGauge(vec, user, ip, v) == Put(vec, <<user, ip>>, v)

Count(f, k) == IF k \in DOMAIN f THEN f[k] ELSE 0

UsersOf(rows) ==
    {parseUser(rows[i]).user : i \in {j \in 1..Len(rows) : parseUser(rows[j]).ok}}

\* variant: backs off only after more than three failures
SleepFor_Gt(fc) == IF fc > FailThreshold THEN failInterval ELSE scrapeInterval

SleepFor(fc) == IF fc >= FailThreshold THEN failInterval ELSE scrapeInterval

Push(h, o) == IF Len(h) < 3 THEN Append(h, o) ELSE Append(Tail(h), o)

(***************************************************************************)
(* Stat values: a non-negative int64 as three limbs <<a, b, c>> standing    *)
(* for a * 2^60 + b * 2^30 + c, and float64(int64) over the same limbs.     *)
(***************************************************************************)
Base == 2^30
I64(n) == <<0, 0, n>>
IsZero(v) == v = <<0, 0, 0>>

RECURSIVE BitLen(_)
BitLen(n) == IF n = 0 THEN 0 ELSE 1 + BitLen(n \div 2)

\* float64(stat.Value): 53 significant bits, round to nearest, ties to even
Float64(v) ==
    LET a == v[1]
        b == v[2]
        c == v[3]
        len == IF a > 0 THEN 60 + BitLen(a)
               ELSE IF b > 0 THEN 30 + BitLen(b) ELSE BitLen(c)
        s == IF len > 53 THEN len - 53 ELSE 0
        q == c \div (2^s)
        r == c % (2^s)
        half == (2^s) \div 2
        up == s > 0 /\ (r > half \/ (r = half /\ q % 2 = 1))
        c2 == (q + (IF up THEN 1 ELSE 0)) * (2^s)
    IN IF c2 < Base THEN <<a, b, c2>>
       ELSE IF b + 1 < Base THEN <<a, b + 1, 0>>
       ELSE <<a + 1, 0, 0>>

\* v < 2^53
Below2p53(v) == v[1] = 0 /\ v[2] < 2^23

(***************************************************************************)
(* The pull collector's loop over resp.Stat                                *)
(***************************************************************************)
TrafficMark == Sep \o <<"traffic">> \o Sep

\* variant: rows with value zero are not skipped
Emits_NoZero(stat) ==
    /\ Contains(stat.Name, TrafficMark)
    /\ ~(Len(Split(stat.Name)) < 4)

\* the row reaches MustNewConstMetric
Emits(stat) ==
    /\ ~IsZero(stat.Value)
    /\ Contains(stat.Name, TrafficMark)
    /\ ~(Len(Split(stat.Name)) < 4)

\* variant: a short name ends the loop (break for continue)
RECURSIVE EmitIdx_Break(_, _)
EmitIdx_Break(rows, i) ==
    IF i > Len(rows) THEN <<>>
    ELSE IF Emits(rows[i]) THEN <<i>> \o EmitIdx_Break(rows, i + 1)
    ELSE IF /\ ~IsZero(rows[i].Value)
            /\ Contains(rows[i].Name, TrafficMark)
            /\ Len(Split(rows[i].Name)) < 4 THEN <<>>
    ELSE EmitIdx_Break(rows, i + 1)

RECURSIVE EmitIdx(_, _)
EmitIdx(rows, i) ==
    IF i > Len(rows) THEN <<>>
    ELSE IF Emits(rows[i]) THEN <<i>> \o EmitIdx(rows, i + 1)
    ELSE EmitIdx(rows, i + 1)

\* variant: the direction label is taken from segment 2
ConstMetric_Seg2(stat) ==
    LET parts == Split(stat.Name)
    IN [typ |-> parts[1], name |-> parts[2], direction |-> parts[3],
        value |-> Float64(stat.Value)]

ConstMetric(stat) ==
    LET parts == Split(stat.Name)
    IN [typ |-> parts[1], name |-> parts[2], direction |-> parts[4],
        value |-> Float64(stat.Value)]

(***************************************************************************)
(* Inputs of the pull collector                                            *)
(***************************************************************************)
Big53 == <<0, 2^23, 1>>      \* 2^53 + 1

ExampleName == Join(<<(<<"user">>), (<<"alice">>), (<<"traffic">>), (<<"uplink">>)>>)
ExampleRow == [Name |-> ExampleName, Value |-> I64(738059)]

CollNames ==
    { ExampleName,
      Join(<<(<<"user">>), (<<"alice">>), (<<"traffic">>), (<<"downlink">>)>>),
      Join(<<(<<"user">>), (<<"alice">>), (<<"traffic">>), (<<"uplink">>), (<<"x">>)>>),
      Join(<<(<<"user">>), (<<"alice">>), (<<"online">>)>>) }

CollValues == {I64(0), I64(1000), I64(738059)}

CollRows == [Name : CollNames, Value : CollValues]

CollTables ==
    {<<>>} \cup {<<r>> : r \in CollRows} \cup {<<r, q>> : r \in CollRows, q \in CollRows}

Segments == {<<>>, <<"user">>, <<"a">>, <<"traffic">>, <<">">>}

AllNames ==
    {ExampleName} \cup
    {Join(segs) : segs \in UNION {[1..n -> Segments] : n \in 1..MaxSegs}}

ParseValues == {I64(0), I64(738059), Big53}

ParseRows == [Name : AllNames, Value : ParseValues]

ParseTables == {<<r>> : r \in ParseRows} \cup {<<r, ExampleRow>> : r \in ParseRows}

(***************************************************************************)
(* Initial state                                                           *)
(***************************************************************************)
InitSched ==
    /\ pc = "warmup"
    /\ cancelled = FALSE
    /\ failCount = 0
    /\ sleep = 0
    /\ xrayUp = 0
    /\ xrayUserIPOnline = EmptyVec
    /\ resp = <<>>
    /\ users = {}
    /\ pending = {}
    /\ curUser = <<>>
    /\ ipsLeft = {}
    /\ committed = EmptyVec
    /\ results = EmptyVec
    /\ listOK = FALSE
    /\ cleared = FALSE
    /\ upWrites = 0
    /\ hist = <<>>
    /\ seen = {}
    /\ everOK = FALSE
    /\ issued = EmptyVec
    /\ upBefore = 0

InitColl ==
    /\ cpc = "idle"
    /\ cresp = <<>>
    /\ emitted = <<>>
    /\ emittedFrom = <<>>
    /\ fetched = None
    /\ prevEmitted = <<>>

Init ==
    /\ InitSched
    /\ InitColl
    /\ upstream = UpstreamDown
    /\ curData = UpstreamDown
    /\ prevData = UpstreamDown

(***************************************************************************)
(* scrapeLoop                                                              *)
(***************************************************************************)
\* time.Sleep(2 * time.Second)
InitialDelay ==
    /\ pc = "warmup"
    /\ pc' = "select"
    /\ UNCHANGED <<cancelled, failCount, sleep, xrayUp, xrayUserIPOnline, resp, users,
                   pending, curUser, ipsLeft, committed, results, listOK,
                   cleared, upWrites, hist, seen>>
    /\ UNCHANGED collVars
    /\ UNCHANGED auxVars

\* signal.NotifyContext: the signal closes ctx.Done()
Cancel ==
    /\ ~cancelled
    /\ cancelled' = TRUE
    /\ UNCHANGED <<pc, failCount, sleep, xrayUp, xrayUserIPOnline, resp, users, pending,
                   curUser, ipsLeft, committed, results, listOK, cleared,
                   upWrites, hist, seen>>
    /\ UNCHANGED collVars
    /\ UNCHANGED auxVars

\* case <-ctx.Done(): return
Stop ==
    /\ pc = "select"
    /\ cancelled
    /\ pc' = "stopped"
    /\ UNCHANGED <<cancelled, failCount, sleep, xrayUp, xrayUserIPOnline, resp, users,
                   pending, curUser, ipsLeft, committed, results, listOK,
                   cleared, upWrites, hist, seen>>
    /\ UNCHANGED collVars
    /\ UNCHANGED auxVars

\* variant: the default branch is taken although ctx.Done() is closed
BeginCycle_IgnoreCancel ==
    /\ pc = "select"
    /\ pc' = "query"
    /\ committed' = xrayUserIPOnline
    /\ results' = EmptyVec
    /\ listOK' = FALSE
    /\ cleared' = FALSE
    /\ upWrites' = 0
    /\ seen' = {}
    /\ users' = {}
    /\ UNCHANGED <<cancelled, failCount, sleep, xrayUp, xrayUserIPOnline, resp, pending,
                   curUser, ipsLeft, hist>>
    /\ UNCHANGED collVars
    /\ issued' = EmptyVec
    /\ prevData' = curData
    /\ curData' = upstream
    /\ upBefore' = xrayUp
    /\ UNCHANGED <<everOK, upstream>>

\* default: the call of scrapeOnlineUsersAndHealth, up to its QueryStats
BeginCycle ==
    /\ pc = "select"
    /\ ~cancelled
    /\ pc' = "query"
    /\ committed' = xrayUserIPOnline
    /\ results' = EmptyVec
    /\ listOK' = FALSE
    /\ cleared' = FALSE
    /\ upWrites' = 0
    /\ seen' = {}
    /\ users' = {}
    /\ UNCHANGED <<cancelled, failCount, sleep, xrayUp, xrayUserIPOnline, resp, pending,
                   curUser, ipsLeft, hist>>
    /\ UNCHANGED collVars
    /\ issued' = EmptyVec
    /\ prevData' = curData
    /\ curData' = upstream
    /\ upBefore' = xrayUp
    /\ UNCHANGED <<everOK, upstream>>

\* variant: the loop returns once the failures reach the threshold
QueryStatsErr_GiveUp ==
    /\ pc = "query"
    /\ failCount < MaxFail
    /\ failCount' = failCount + 1
    /\ xrayUp' = 0
    /\ upWrites' = upWrites + 1
    /\ sleep' = SleepFor(failCount + 1)
    /\ hist' = Push(hist, "fail")
    /\ pc' = IF failCount + 1 >= FailThreshold THEN "stopped" ELSE "sleep"
    /\ UNCHANGED <<cancelled, xrayUserIPOnline, resp, users, pending, curUser, ipsLeft,
                   committed, results, listOK, cleared, seen>>
    /\ UNCHANGED collVars
    /\ UNCHANGED auxVars

\* variant: the gauge vector is reset before the list query is known to succeed
QueryStatsErr_ResetFirst ==
    /\ pc = "query"
    /\ failCount < MaxFail
    /\ xrayUserIPOnline' = EmptyVec
    /\ cleared' = TRUE
    /\ failCount' = failCount + 1
    /\ xrayUp' = 0
    /\ upWrites' = upWrites + 1
    /\ sleep' = SleepFor(failCount + 1)
    /\ hist' = Push(hist, "fail")
    /\ pc' = "sleep"
    /\ UNCHANGED <<cancelled, resp, users, pending, curUser, ipsLeft,
                   committed, results, listOK, seen>>
    /\ UNCHANGED collVars
    /\ UNCHANGED auxVars

\* variant: the failure branch sets xray_up to 1
QueryStatsErr_UpOne ==
    /\ pc = "query"
    /\ failCount < MaxFail
    /\ failCount' = failCount + 1
    /\ xrayUp' = 1
    /\ upWrites' = upWrites + 1
    /\ sleep' = SleepFor(failCount + 1)
    /\ hist' = Push(hist, "fail")
    /\ pc' = "sleep"
    /\ UNCHANGED <<cancelled, xrayUserIPOnline, resp, users, pending, curUser, ipsLeft,
                   committed, results, listOK, cleared, seen>>
    /\ UNCHANGED collVars
    /\ UNCHANGED auxVars

\* QueryStats fails: return err; failCount++; xrayUp.Set(0); sleep chosen
QueryStatsErr ==
    /\ pc = "query"
    /\ failCount < MaxFail
    /\ failCount' = failCount + 1
    /\ xrayUp' = 0
    /\ upWrites' = upWrites + 1
    /\ sleep' = SleepFor(failCount + 1)
    /\ hist' = Push(hist, "fail")
    /\ pc' = "sleep"
    /\ UNCHANGED <<cancelled, xrayUserIPOnline, resp, users, pending, curUser, ipsLeft,
                   committed, results, listOK, cleared, seen>>
    /\ UNCHANGED collVars
    /\ UNCHANGED auxVars

\* QueryStats returns rows
QueryStatsOK(rows) ==
    /\ pc = "query"
    /\ resp' = rows
    /\ listOK' = TRUE
    /\ pc' = "reset"
    /\ UNCHANGED <<cancelled, failCount, sleep, xrayUp, xrayUserIPOnline, users, pending,
                   curUser, ipsLeft, committed, results, cleared, upWrites,
                   hist, seen>>
    /\ UNCHANGED collVars
    /\ everOK' = TRUE
    /\ UNCHANGED <<issued, upstream, curData, prevData, upBefore>>

\* variant: the gauge vector is not reset
Reset_NoClear ==
    /\ pc = "reset"
    /\ users' = UsersOf(resp)
    /\ pending' = UsersOf(resp)
    /\ pc' = "lookup"
    /\ UNCHANGED <<cancelled, failCount, sleep, xrayUp, xrayUserIPOnline, resp, curUser,
                   ipsLeft, committed, results, listOK, cleared, upWrites,
                   hist, seen>>
    /\ UNCHANGED collVars
    /\ UNCHANGED auxVars

\* xrayUserIPOnline.Reset() and the loop that fills users
Reset ==
    /\ pc = "reset"
    /\ xrayUserIPOnline' = EmptyVec
    /\ cleared' = TRUE
    /\ users' = UsersOf(resp)
    /\ pending' = UsersOf(resp)
    /\ pc' = "lookup"
    /\ UNCHANGED <<cancelled, failCount, sleep, xrayUp, resp, curUser, ipsLeft,
                   committed, results, listOK, upWrites, hist, seen>>
    /\ UNCHANGED collVars
    /\ UNCHANGED auxVars

\* variant: a failed lookup returns the error (return err for continue)
LookupErr_Abort(user) ==
    /\ pc = "lookup"
    /\ user \in pending
    /\ failCount < MaxFail
    /\ pending' = pending \ {user}
    /\ results' = Put(results, user, [ok |-> FALSE, ips |-> {}])
    /\ failCount' = failCount + 1
    /\ xrayUp' = 0
    /\ upWrites' = upWrites + 1
    /\ sleep' = SleepFor(failCount + 1)
    /\ hist' = Push(hist, "fail")
    /\ pc' = "sleep"
    /\ UNCHANGED <<cancelled, xrayUserIPOnline, resp, users, curUser, ipsLeft, committed,
                   listOK, cleared, seen>>
    /\ UNCHANGED collVars
    /\ issued' = Put(issued, LookupKey(user), Count(issued, LookupKey(user)) + 1)
    /\ UNCHANGED <<everOK, upstream, curData, prevData, upBefore>>

\* variant: a failed lookup also marks the upstream down
LookupErr_MarkDown(user) ==
    /\ pc = "lookup"
    /\ user \in pending
    /\ pending' = pending \ {user}
    /\ results' = Put(results, user, [ok |-> FALSE, ips |-> {}])
    /\ xrayUp' = 0
    /\ upWrites' = upWrites + 1
    /\ UNCHANGED <<pc, cancelled, failCount, sleep, xrayUserIPOnline, resp, users,
                   curUser, ipsLeft, committed, listOK, cleared, hist, seen>>
    /\ UNCHANGED collVars
    /\ issued' = Put(issued, LookupKey(user), Count(issued, LookupKey(user)) + 1)
    /\ UNCHANGED <<everOK, upstream, curData, prevData, upBefore>>

\* GetStatsOnlineIpList fails for the next user of the range: continue
LookupErr(user) ==
    /\ pc = "lookup"
    /\ user \in pending
    /\ pending' = pending \ {user}
    /\ results' = Put(results, user, [ok |-> FALSE, ips |-> {}])
    /\ UNCHANGED <<pc, cancelled, failCount, sleep, xrayUp, xrayUserIPOnline, resp, users,
                   curUser, ipsLeft, committed, listOK, cleared, upWrites,
                   hist, seen>>
    /\ UNCHANGED collVars
    /\ issued' = Put(issued, LookupKey(user), Count(issued, LookupKey(user)) + 1)
    /\ UNCHANGED <<everOK, upstream, curData, prevData, upBefore>>

\* GetStatsOnlineIpList returns ips for the next user of the range
LookupOK(user, ips) ==
    /\ pc = "lookup"
    /\ user \in pending
    /\ pending' = pending \ {user}
    /\ results' = Put(results, user, [ok |-> TRUE, ips |-> ips])
    /\ curUser' = user
    /\ ipsLeft' = ips
    /\ pc' = "setip"
    /\ UNCHANGED <<cancelled, failCount, sleep, xrayUp, xrayUserIPOnline, resp, users,
                   committed, listOK, cleared, upWrites, hist, seen>>
    /\ UNCHANGED collVars
    /\ issued' = Put(issued, LookupKey(user), Count(issued, LookupKey(user)) + 1)
    /\ UNCHANGED <<everOK, upstream, curData, prevData, upBefore>>

\* xrayUserIPOnline.WithLabelValues(user, ip).Set(1) for the next ip
SetIP(ip) ==
    /\ pc = "setip"
    /\ ip \in ipsLeft
    /\ xrayUserIPOnline' = SetGauge(xrayUserIPOnline, curUser, ip, 1)
    /\ ipsLeft' = ipsLeft \ {ip}
    /\ UNCHANGED <<pc, cancelled, failCount, sleep, xrayUp, resp, users, pending,
                   curUser, committed, results, listOK, cleared, upWrites,
                   hist, seen>>
    /\ UNCHANGED collVars
    /\ UNCHANGED auxVars

\* the range over ipResp.Ips is exhausted
EndSetIP ==
    /\ pc = "setip"
    /\ ipsLeft = {}
    /\ pc' = "lookup"
    /\ UNCHANGED <<cancelled, failCount, sleep, xrayUp, xrayUserIPOnline, resp, users,
                   pending, curUser, ipsLeft, committed, results, listOK,
                   cleared, upWrites, hist, seen>>
    /\ UNCHANGED collVars
    /\ UNCHANGED auxVars

\* variant: the cycle also reports a traffic metric for each four-segment row
CycleOK_Traffic ==
    /\ pc = "lookup"
    /\ pending = {}
    /\ failCount' = 0
    /\ xrayUp' = 1
    /\ upWrites' = upWrites + 1
    /\ sleep' = SleepFor(0)
    /\ hist' = Push(hist, "ok")
    /\ resp' = <<>>
    /\ curUser' = <<>>
    /\ pc' = "sleep"
    /\ emitted' = emitted \o
           [i \in 1..Len(SelectSeq(resp, LAMBDA n : Len(Split(n)) >= 4)) |->
               ConstMetric([Name |-> SelectSeq(resp, LAMBDA n : Len(Split(n)) >= 4)[i],
                            Value |-> I64(1)])]
    /\ UNCHANGED <<cancelled, xrayUserIPOnline, users, pending, ipsLeft, committed,
                   results, listOK, cleared, seen>>
    /\ UNCHANGED <<cpc, cresp, emittedFrom, fetched, prevEmitted>>
    /\ UNCHANGED auxVars

\* variant: xray_up is incremented (Inc for Set(1))
CycleOK_IncUp ==
    /\ pc = "lookup"
    /\ pending = {}
    /\ failCount' = 0
    /\ xrayUp' = xrayUp + 1
    /\ upWrites' = upWrites + 1
    /\ sleep' = SleepFor(0)
    /\ hist' = Push(hist, "ok")
    /\ resp' = <<>>
    /\ curUser' = <<>>
    /\ pc' = "sleep"
    /\ UNCHANGED <<cancelled, xrayUserIPOnline, users, pending, ipsLeft, committed,
                   results, listOK, cleared, seen>>
    /\ UNCHANGED collVars
    /\ UNCHANGED auxVars

\* return nil; failCount = 0; xrayUp.Set(1); sleep chosen
CycleOK ==
    /\ pc = "lookup"
    /\ pending = {}
    /\ failCount' = 0
    /\ xrayUp' = 1
    /\ upWrites' = upWrites + 1
    /\ sleep' = SleepFor(0)
    /\ hist' = Push(hist, "ok")
    /\ resp' = <<>>
    /\ curUser' = <<>>
    /\ pc' = "sleep"
    /\ UNCHANGED <<cancelled, xrayUserIPOnline, users, pending, ipsLeft, committed,
                   results, listOK, cleared, seen>>
    /\ UNCHANGED collVars
    /\ UNCHANGED auxVars

\* time.Sleep(sleep)
Sleep ==
    /\ pc = "sleep"
    /\ pc' = "select"
    /\ UNCHANGED <<cancelled, failCount, sleep, xrayUp, xrayUserIPOnline, resp, users,
                   pending, curUser, ipsLeft, committed, results, listOK,
                   cleared, upWrites, hist, seen>>
    /\ UNCHANGED collVars
    /\ UNCHANGED auxVars

\* the upstream's data changes while the loop sleeps
UpstreamChange(d) ==
    /\ pc = "sleep"
    /\ d # upstream
    /\ upstream' = d
    /\ UNCHANGED <<everOK, issued, curData, prevData, upBefore>>
    /\ UNCHANGED schedVars
    /\ UNCHANGED seen
    /\ UNCHANGED collVars

(***************************************************************************)
(* The metrics endpoint gathers the gauge vector                           *)
(***************************************************************************)
ScrapeGauges ==
    /\ seen' = {xrayUserIPOnline}
    /\ UNCHANGED schedVars
    /\ UNCHANGED collVars
    /\ UNCHANGED auxVars

(***************************************************************************)
(* XrayTrafficCollector.Collect                                            *)
(***************************************************************************)
\* context.WithTimeout and the call of QueryStats with the empty pattern
CollectCall ==
    /\ cpc = "idle"
    /\ cpc' = "rpc"
    /\ prevEmitted' = emitted
    /\ emitted' = <<>>
    /\ emittedFrom' = <<>>
    /\ fetched' = None
    /\ cresp' = <<>>
    /\ UNCHANGED schedVars
    /\ UNCHANGED seen
    /\ UNCHANGED auxVars

\* variant: the collector marks the upstream down when its query fails
CollectQueryErr_SetsDown ==
    /\ cpc = "rpc"
    /\ fetched' = Err
    /\ cpc' = "idle"
    /\ xrayUp' = 0
    /\ UNCHANGED <<cresp, emitted, emittedFrom, prevEmitted>>
    /\ UNCHANGED <<pc, cancelled, failCount, sleep, xrayUserIPOnline, resp, users,
                   pending, curUser, ipsLeft, committed, results, listOK,
                   cleared, upWrites, hist>>
    /\ UNCHANGED seen
    /\ UNCHANGED auxVars

\* QueryStats fails: log and return
CollectQueryErr ==
    /\ cpc = "rpc"
    /\ fetched' = Err
    /\ cpc' = "idle"
    /\ UNCHANGED <<cresp, emitted, emittedFrom, prevEmitted>>
    /\ UNCHANGED schedVars
    /\ UNCHANGED seen
    /\ UNCHANGED auxVars

\* QueryStats returns rows
CollectQueryOK(rows) ==
    /\ cpc = "rpc"
    /\ cresp' = rows
    /\ fetched' = "ok"
    /\ cpc' = "range"
    /\ UNCHANGED <<emitted, emittedFrom, prevEmitted>>
    /\ UNCHANGED schedVars
    /\ UNCHANGED seen
    /\ UNCHANGED auxVars

\* variant: identities of the previous read that this fetch lacks are sent again
CollectEmit_Upsert ==
    /\ cpc = "range"
    /\ emittedFrom' = EmitIdx(cresp, 1)
    /\ emitted' =
           [k \in 1..Len(EmitIdx(cresp, 1)) |->
               ConstMetric(cresp[EmitIdx(cresp, 1)[k]])]
           \o SelectSeq(prevEmitted,
                  LAMBDA m : \A k \in 1..Len(EmitIdx(cresp, 1)) :
                      LET n == ConstMetric(cresp[EmitIdx(cresp, 1)[k]])
                      IN <<n.typ, n.name, n.direction>> # <<m.typ, m.name, m.direction>>)
    /\ cpc' = "idle"
    /\ UNCHANGED <<cresp, fetched, prevEmitted>>
    /\ UNCHANGED schedVars
    /\ UNCHANGED seen
    /\ UNCHANGED auxVars

\* the loop over resp.Stat
CollectEmit ==
    /\ cpc = "range"
    /\ emittedFrom' = EmitIdx(cresp, 1)
    /\ emitted' = [k \in 1..Len(EmitIdx(cresp, 1)) |->
                       ConstMetric(cresp[EmitIdx(cresp, 1)[k]])]
    /\ cpc' = "idle"
    /\ UNCHANGED <<cresp, fetched, prevEmitted>>
    /\ UNCHANGED schedVars
    /\ UNCHANGED seen
    /\ UNCHANGED auxVars

Next ==
    \/ InitialDelay
    \/ Cancel
    \/ Stop
    \/ BeginCycle
    \/ QueryStatsErr
    \/ \E rows \in SchedTables : QueryStatsOK(rows)
    \/ Reset
    \/ \E user \in pending : LookupErr(user)
    \/ \E user \in pending : \E ips \in SUBSET IPs : LookupOK(user, ips)
    \/ \E ip \in IPs : SetIP(ip)
    \/ EndSetIP
    \/ CycleOK
    \/ Sleep
    \/ ScrapeGauges

Spec == Init /\ [][Next]_vars

(***************************************************************************)
(* The scrape loop with one user and the pull collector side by side       *)
(***************************************************************************)
ReadTables == {<<>>, <<ExampleRow>>}
ReadSchedTables == {<<n>> : n \in SchedNames}

NextReads ==
    \/ InitialDelay
    \/ Cancel
    \/ Stop
    \/ BeginCycle
    \/ QueryStatsErr
    \/ \E rows \in ReadSchedTables : QueryStatsOK(rows)
    \/ Reset
    \/ \E user \in pending : LookupErr(user)
    \/ \E user \in pending : \E ips \in SUBSET {"ip1"} : LookupOK(user, ips)
    \/ \E ip \in IPs : SetIP(ip)
    \/ EndSetIP
    \/ CycleOK
    \/ Sleep
    \/ ScrapeGauges
    \/ CollectCall
    \/ CollectQueryErr
    \/ \E rows \in ReadTables : CollectQueryOK(rows)
    \/ CollectEmit

SpecReads == Init /\ [][NextReads]_vars

(***************************************************************************)
(* The pull collector alone, read after read                               *)
(***************************************************************************)
NextCollect ==
    \/ CollectCall
    \/ CollectQueryErr
    \/ \E rows \in CollTables : CollectQueryOK(rows)
    \/ CollectEmit

SpecCollect == Init /\ [][NextCollect]_vars

(***************************************************************************)
(* The loop over resp.Stat on every generated stat table                   *)
(***************************************************************************)
InitParse ==
    /\ InitSched
    /\ upstream = UpstreamDown
    /\ curData = UpstreamDown
    /\ prevData = UpstreamDown
    /\ cpc = "range"
    /\ cresp \in ParseTables
    /\ fetched = "ok"
    /\ emitted = <<>>
    /\ emittedFrom = <<>>
    /\ prevEmitted = <<>>

NextParse == CollectEmit

SpecParse == InitParse /\ [][NextParse]_vars

(***************************************************************************)
(* The scrape loop against upstream data that changes only between cycles  *)
(***************************************************************************)
InitIdem ==
    /\ InitSched
    /\ InitColl
    /\ upstream \in Upstreams
    /\ curData = upstream
    /\ prevData = upstream

NextIdem ==
    \/ InitialDelay
    \/ BeginCycle
    \/ (~upstream.ok /\ QueryStatsErr)
    \/ (upstream.ok /\ QueryStatsOK(upstream.rows))
    \/ Reset
    \/ \E user \in pending : ~upstream.lookup[user].ok /\ LookupErr(user)
    \/ \E user \in pending :
          upstream.lookup[user].ok /\ LookupOK(user, upstream.lookup[user].ips)
    \/ \E ip \in IPs : SetIP(ip)
    \/ EndSetIP
    \/ CycleOK
    \/ Sleep
    \/ \E d \in Upstreams : UpstreamChange(d)

SpecIdem == InitIdem /\ [][NextIdem]_vars

(***************************************************************************)
(* The scrape loop as a goroutine that always gets to run: every RPC        *)
(* returns within rpcTimeout and every time.Sleep returns                   *)
(***************************************************************************)
SchedStep ==
    \/ InitialDelay
    \/ Stop
    \/ BeginCycle
    \/ QueryStatsErr
    \/ \E rows \in ReadSchedTables : QueryStatsOK(rows)
    \/ Reset
    \/ \E user \in pending : LookupErr(user)
    \/ \E user \in pending : \E ips \in SUBSET {"ip1"} : LookupOK(user, ips)
    \/ \E ip \in IPs : SetIP(ip)
    \/ EndSetIP
    \/ CycleOK
    \/ Sleep

NextLive ==
    \/ SchedStep
    \/ Cancel

SpecLive == Init /\ [][NextLive]_vars /\ WF_vars(SchedStep)

(***************************************************************************)
(* Properties                                                              *)
(***************************************************************************)
CycleDone == pc = "sleep"
LastOutcome == hist[Len(hist)]
PairsOf(vec, user) == {p \in DOMAIN vec : p[1] = user}
Ident(m) == <<m.typ, m.name, m.direction>>
\* identities of the rows whose names have the four segments of a traffic row
RowIdents(rows) ==
    {<<Split(rows[i].Name)[1], Split(rows[i].Name)[2], Split(rows[i].Name)[4]>> :
        i \in {j \in 1..Len(rows) : Len(Split(rows[j].Name)) >= 4}}
CollectDone == cpc = "idle" /\ fetched = "ok"
IsTrafficRow(stat) ==
    /\ Contains(stat.Name, TrafficMark)
    /\ Len(Split(stat.Name)) >= 4
    /\ ~IsZero(stat.Value)

\* C1: a scrape made during a cycle whose list query succeeded saw either
\* the set the previous cycle left or the set this cycle leaves, nothing else.
C1_AtomicSnapshot ==
    (CycleDone /\ listOK) => seen \subseteq {committed, xrayUserIPOnline}

\* C2: when the list query fails the gauge vector is never cleared in that
\* cycle and equals, after the cycle, what it was before the cycle.
C2_ListFailureKeepsSnapshot ==
    (pc = "query" \/ (CycleDone /\ ~listOK)) => (xrayUserIPOnline = committed /\ ~cleared)

C2_Witness ==
    CycleDone /\ ~listOK /\ committed # EmptyVec /\ xrayUserIPOnline = committed

\* C3: after a cycle whose list query succeeded, every exposed (user, ip)
\* has an ip that this cycle's lookup returned for that user, with value 1.
C3_PresenceRetraction ==
    (CycleDone /\ listOK) =>
        \A p \in DOMAIN xrayUserIPOnline :
            /\ p[1] \in DOMAIN results
            /\ results[p[1]].ok
            /\ p[2] \in results[p[1]].ips
            /\ xrayUserIPOnline[p] = 1

C3_Witness ==
    /\ CycleDone
    /\ listOK
    /\ \E p \in DOMAIN committed :
          p \notin DOMAIN xrayUserIPOnline /\ p[1] \notin DOMAIN results
    /\ \E q \in DOMAIN committed :
          /\ q \notin DOMAIN xrayUserIPOnline
          /\ q[1] \in DOMAIN results
          /\ results[q[1]].ok
          /\ results[q[1]].ips = {}

\* C4: after a cycle whose list query succeeded every user was looked up,
\* every ip returned for a succeeding user is exposed with value 1, a failing
\* user has no entry, and the cycle counts as a success.
C4_PartialFailureIsolation ==
    (CycleDone /\ listOK) =>
        /\ DOMAIN results = users
        /\ LastOutcome = "ok"
        /\ \A u \in users :
              IF results[u].ok
              THEN \A ip \in results[u].ips :
                      <<u, ip>> \in DOMAIN xrayUserIPOnline /\ xrayUserIPOnline[<<u, ip>>] = 1
              ELSE PairsOf(xrayUserIPOnline, u) = {}

C4_Witness ==
    /\ CycleDone
    /\ listOK
    /\ \E u \in users, v \in users :
          /\ ~results[u].ok
          /\ PairsOf(committed, u) # {}
          /\ PairsOf(xrayUserIPOnline, u) = {}
          /\ results[v].ok
          /\ results[v].ips # {}
          /\ PairsOf(xrayUserIPOnline, v) # {}

\* C5: the delay chosen after a cycle is failInterval exactly when that cycle
\* and the two before it failed, and scrapeInterval otherwise.
C5_Backoff ==
    CycleDone =>
        /\ sleep = failInterval <=>
              (Len(hist) = 3 /\ \A i \in 1..3 : hist[i] = "fail")
        /\ sleep # failInterval => sleep = scrapeInterval

C5_Witness ==
    /\ CycleDone
    /\ hist = <<"fail", "fail", "fail">>
    /\ failCount = FailThreshold
    /\ sleep = failInterval

\* C6: xray_up is written once per cycle, to 1 when the list query succeeded
\* and to 0 when it failed; a failed lookup does not fail the cycle.
C6_ReachabilityOncePerCycle ==
    CycleDone =>
        /\ upWrites = 1
        /\ xrayUp = (IF listOK THEN 1 ELSE 0)
        /\ LastOutcome = "fail" <=> ~listOK

C6_Witness ==
    /\ CycleDone
    /\ listOK
    /\ xrayUp = 1
    /\ \E u \in DOMAIN results : ~results[u].ok

\* C7: no step of a read (Collect or the gauge scrape) changes xray_up or the
\* gauge vector, and a Collect whose query failed has sent no metric and
\* has returned.
C7_ReadsDoNotWrite ==
    /\ [][(collVars' # collVars \/ (seen' # seen /\ seen' # {}))
             => (xrayUp' = xrayUp /\ xrayUserIPOnline' = xrayUserIPOnline)]_vars
    /\ [](fetched = Err => (emitted = <<>> /\ cpc = "idle"))

C7_Witness ==
    /\ fetched = Err
    /\ cpc = "idle"
    /\ emitted = <<>>
    /\ pc = "lookup"
    /\ xrayUp = 1
    /\ xrayUserIPOnline # EmptyVec

\* C8 as stated: an identity the previous read reported with value v and that
\* the rows of this successful fetch lack is still reported with value v.
C8_StaleRetention ==
    CollectDone =>
        \A k \in 1..Len(prevEmitted) :
            Ident(prevEmitted[k]) \notin RowIdents(cresp) =>
                \E j \in 1..Len(emitted) : emitted[j] = prevEmitted[k]

\* C8 amended: an identity the previous read reported and that the rows of
\* this successful fetch lack is not reported by this read at all.
C8_NoRetention ==
    CollectDone =>
        \A k \in 1..Len(prevEmitted) :
            Ident(prevEmitted[k]) \notin RowIdents(cresp) =>
                \A j \in 1..Len(emitted) : Ident(emitted[j]) # Ident(prevEmitted[k])

C8_Witness ==
    /\ CollectDone
    /\ \E k \in 1..Len(prevEmitted) :
          /\ prevEmitted[k].value = I64(1000)
          /\ Ident(prevEmitted[k]) \notin RowIdents(cresp)
    /\ emitted # <<>>

\* C9 as stated: every row with four or more segments and a non-zero value
\* yields a metric labelled with segments 0, 1 and 3 and the row's value.
C9_FourSegmentsYieldSample ==
    CollectDone =>
        \A i \in 1..Len(cresp) :
            (Len(Split(cresp[i].Name)) >= 4 /\ ~IsZero(cresp[i].Value)) =>
                \E k \in 1..Len(emitted) :
                    /\ emittedFrom[k] = i
                    /\ Ident(emitted[k]) = <<Split(cresp[i].Name)[1],
                                             Split(cresp[i].Name)[2],
                                             Split(cresp[i].Name)[4]>>
                    /\ emitted[k].value = cresp[i].Value

\* C9 amended: a row whose name contains ">>>traffic>>>", has four or more
\* segments and a non-zero value yields exactly one metric, labelled with
\* segments 0, 1 and 3, whose value is the row's value when that is below
\* 2^53 (2^53 + 1 is reported as 2^53); a row whose name lacks
\* ">>>traffic>>>" yields none.
C9_TrafficParse ==
    CollectDone =>
        \A i \in 1..Len(cresp) :
            LET ks == {k \in 1..Len(emitted) : emittedFrom[k] = i}
                parts == Split(cresp[i].Name)
            IN /\ IsTrafficRow(cresp[i]) =>
                    /\ Cardinality(ks) = 1
                    /\ \A k \in ks :
                          /\ emitted[k].typ = parts[1]
                          /\ emitted[k].name = parts[2]
                          /\ emitted[k].direction = parts[4]
                          /\ Below2p53(cresp[i].Value) =>
                                emitted[k].value = cresp[i].Value
                          /\ cresp[i].Value = Big53 =>
                                emitted[k].value = <<0, 2^23, 0>>
               /\ ~Contains(cresp[i].Name, TrafficMark) => ks = {}

C9_Witness ==
    /\ CollectDone
    /\ Len(cresp) = 2
    /\ cresp[2] = ExampleRow
    /\ Len(Split(cresp[1].Name)) > 4
    /\ Split(cresp[1].Name)[3] # <<"traffic">>
    /\ Split(cresp[1].Name)[4] # Split(cresp[1].Name)[3]
    /\ Len(emitted) = 2
    /\ emitted[2] = [typ |-> <<"user">>, name |-> <<"alice">>,
                     direction |-> <<"uplink">>, value |-> I64(738059)]

\* C10: a row whose name has fewer than four segments yields no metric, and
\* every traffic row of the same fetch, before or after it, yields one.
C10_ShortNamesSkipped ==
    CollectDone =>
        /\ \A k \in 1..Len(emittedFrom) :
              Len(Split(cresp[emittedFrom[k]].Name)) >= 4
        /\ \A i \in 1..Len(cresp) :
              IsTrafficRow(cresp[i]) =>
                  \E k \in 1..Len(emittedFrom) : emittedFrom[k] = i
        /\ Len(emitted) = Len(emittedFrom)

C10_Witness ==
    /\ CollectDone
    /\ Len(cresp) = 2
    /\ Len(Split(cresp[1].Name)) = 3
    /\ Contains(cresp[1].Name, TrafficMark)
    /\ ~IsZero(cresp[1].Value)
    /\ cresp[2] = ExampleRow
    /\ emittedFrom = <<2>>

\* C11: no emitted metric has the value zero and none comes from a row whose
\* value is zero, whatever the row's name.
C11_ZeroRowsOmitted ==
    CollectDone =>
        /\ \A k \in 1..Len(emitted) :
              /\ ~IsZero(emitted[k].value)
              /\ ~IsZero(cresp[emittedFrom[k]].Value)
        /\ Len(emitted) = Len(emittedFrom)

C11_Witness ==
    /\ CollectDone
    /\ Len(cresp) = 2
    /\ cresp[1] = [Name |-> ExampleName, Value |-> I64(0)]
    /\ cresp[2] = ExampleRow
    /\ emittedFrom = <<2>>
    /\ Len(emitted) = 1

\* C15: once the gauge vector has been cleared in a cycle, every lookup of
\* that cycle has already returned.
C15_FetchesBeforeReset ==
    cleared => DOMAIN results = users

\* C17: no step of the scrape loop changes the traffic metrics, and every
\* metric a finished Collect has sent comes from a row of its own fetch.
C17_OnlyPullTraffic ==
    /\ [][(pc' # pc \/ xrayUp' # xrayUp \/ xrayUserIPOnline' # xrayUserIPOnline)
             => (emitted' = emitted /\ prevEmitted' = prevEmitted)]_vars
    /\ [](cpc = "idle" =>
             /\ Len(emitted) = Len(emittedFrom)
             /\ fetched # "ok" => emitted = <<>>
             /\ \A k \in 1..Len(emitted) :
                   /\ emittedFrom[k] \in 1..Len(cresp)
                   /\ Ident(emitted[k]) \in RowIdents(<<cresp[emittedFrom[k]]>>))

C17_Witness ==
    /\ CycleDone
    /\ listOK
    /\ xrayUserIPOnline # EmptyVec
    /\ CollectDone
    /\ emitted # <<>>

\* C18: when the names of the fetched rows are pairwise distinct, the metrics
\* of one Collect have pairwise distinct identities.
C18_OneSamplePerIdentity ==
    (CollectDone /\ \A i, j \in 1..Len(cresp) :
                        i # j => cresp[i].Name # cresp[j].Name) =>
        \A j, k \in 1..Len(emitted) :
            j # k => Ident(emitted[j]) # Ident(emitted[k])

InCycle == {"query", "reset", "lookup", "setip"}

\* C13: once ctx.Done() is closed the loop reaches the stopped state; a cycle
\* in progress at that time runs to its end; a stopped loop stays stopped and
\* writes neither xray_up nor the gauge vector.
C13_Cancellation ==
    /\ cancelled ~> (pc = "stopped")
    /\ [][(cancelled /\ pc \in InCycle) => pc' \in InCycle \cup {"sleep"}]_vars
    /\ [][pc = "stopped" =>
             /\ pc' = "stopped"
             /\ xrayUp' = xrayUp
             /\ xrayUserIPOnline' = xrayUserIPOnline]_vars

C13_Witness ==
    /\ pc = "stopped"
    /\ cancelled
    /\ hist # <<>>
    /\ xrayUserIPOnline # EmptyVec

\* C14: the loop is stopped only when ctx.Done() is closed, and after every
\* cycle, failed or not, it starts another one unless ctx.Done() is closed.
C14_FailureNeverStops ==
    /\ [](pc = "stopped" => cancelled)
    /\ (CycleDone /\ ~cancelled) ~> (pc = "query" \/ cancelled)

C14_Witness ==
    /\ pc = "query"
    /\ ~cancelled
    /\ failCount >= FailThreshold
    /\ hist = <<"fail", "fail", "fail">>

\* C12: a cycle that ran on the same upstream data as the cycle before it
\* leaves the gauge vector and xray_up as that cycle left them, every entry
\* with value 1.
C12_Idempotence ==
    (CycleDone /\ Len(hist) >= 2 /\ prevData = curData) =>
        /\ xrayUserIPOnline = committed
        /\ xrayUp = upBefore
        /\ \A p \in DOMAIN xrayUserIPOnline : xrayUserIPOnline[p] = 1

C12_Witness ==
    /\ CycleDone
    /\ Len(hist) >= 2
    /\ prevData = curData
    /\ curData.ok
    /\ \E u \in users : ~curData.lookup[u].ok
    /\ xrayUserIPOnline # EmptyVec
    /\ xrayUserIPOnline = committed
    /\ xrayUp = 1

KeyOf(user) == Join(<<(<<"user">>), user, (<<"online">>)>>)
ExpectedUsers(rows) ==
    {Split(rows[i])[2] : i \in {j \in 1..Len(rows) : Len(Split(rows[j])) >= 2}}

\* C16: no lookup is issued before the rows of the list query are parsed nor
\* in a cycle whose list query failed; each key issued is "user>>>" + user +
\* ">>>online" for a user that is segment 1 of a row with two or more
\* segments, issued once; when the loop over the users ends every such user
\* has had its lookup.
C16_OneLookupPerUser ==
    /\ pc \in {"query", "reset"} => issued = EmptyVec
    /\ (CycleDone /\ ~listOK) => issued = EmptyVec
    /\ pc \in {"lookup", "setip"} =>
          \A k \in DOMAIN issued :
              issued[k] = 1 /\ k \in {KeyOf(u) : u \in ExpectedUsers(resp)}
    /\ (pc = "lookup" /\ pending = {}) =>
          DOMAIN issued = {KeyOf(u) : u \in ExpectedUsers(resp)}
    /\ (CycleDone /\ listOK) =>
          /\ DOMAIN issued = {KeyOf(u) : u \in users}
          /\ \A k \in DOMAIN issued : issued[k] = 1

C16_Witness ==
    /\ pc = "lookup"
    /\ pending = {}
    /\ Len(resp) = 2
    /\ resp[1] # resp[2]
    /\ ExpectedUsers(resp) = {Alice}
    /\ issued = Put(EmptyVec, KeyOf(Alice), 1)

\* C19: until a list query has succeeded the gauge vector is empty, every
\* scrape saw it empty, and xray_up is not 1.
C19_EmptyUntilFirstSuccess ==
    ~everOK =>
        /\ xrayUserIPOnline = EmptyVec
        /\ xrayUp # 1
        /\ seen \subseteq {EmptyVec}

C19_Witness ==
    /\ ~everOK
    /\ CycleDone
    /\ failCount >= FailThreshold
    /\ seen = {EmptyVec}
    /\ xrayUp = 0

====
